---- MODULE Spec2Model ----
(***************************************************************************)
(* Authenticated request engine of the checkvist client: the credential   *)
(* state guarded by Client.mu, the login / refresh exchanges, the lazy    *)
(* ensureAuthenticated check, CurrentUser, and the retrying request        *)
(* helper (doRequest / calculateRetryDelay).                              *)
(*                                                                         *)
(* Time is counted in hours for the credential state (the code adds 23h   *)
(* and 1h) and in abstract timer units for the backoff sleep.             *)
(* A token is a natural number: 0 is the empty string, k > 0 is the k-th  *)
(* token string the server issued.                                         *)
(* A goroutine's step that touches no shared state is merged with the     *)
(* step before it; every access to token, tokenExp and mu is a step.      *)
(***************************************************************************)
EXTENDS Integers, Sequences, FiniteSets, TLC

\* ------------------------------------------------------------------ bounds
MaxTime == 23          \* the last instant at which the clock is observed
MaxIssued == 2         \* exchanges the server answers with a decodable 200 in one behaviour
MaxRetriesBound == 2   \* largest RetryConfig.MaxRetries explored
MaxBaseDelay == 3      \* largest RetryConfig.BaseDelay explored
MaxMaxDelay == 8       \* largest RetryConfig.MaxDelay explored
MaxAttemptNo == 5      \* largest attempt number given to calculateRetryDelay
MaxStatus == 600        \* status codes 100 .. MaxStatus
MaxTasks == 3          \* longest task slice given to NewFilter
MaxFilters == 2        \* most predicates added to one Filter
MaxTextLen == 3        \* longest TagsAsText given to taskHasTag

\* ------------------------------------------------------- program constants
NoToken == 0           \* the empty token string ""
TokenLifetime == 23    \* c.tokenExp = time.Now().Add(23 * time.Hour)
RenewalHorizon == 1    \* time.Now().Add(1 * time.Hour).After(tokenExp)
StatusOK == 200
StatusBadRequest == 400
StatusUnauthorized == 401
StatusNotFound == 404
StatusTooManyRequests == 429
StatusInternalServerError == 500
StatusOpen == 0
StatusClosed == 1

Procs == {"g1", "g2"}
NoProc == "none"

\* The instants (hours) at which the wall clock is observed: the start, and the
\* hours around the expiry of a token stored at the start.
Times == {0} \cup ((TokenLifetime - 1) .. MaxTime)

\* HTTP statuses the server answers with.
AuthStatuses == {200, 204, 401, 503}
DataStatuses == {200, 204, 400, 401, 403, 404, 429, 500, 503}

VARIABLES
    token,      \* Client.token
    tokenExp,   \* Client.tokenExp
    mu,         \* Client.mu: [writer, readers]
    now,        \* wall clock (hours)
    issued,     \* number of exchanges the server has answered with a token body
    stamp,      \* history: the exchange that wrote token, and the one that wrote tokenExp
    retryConf,  \* Client.retryConf
    pc,         \* position of each goroutine
    op,         \* the exported operation each goroutine is running
    lv,         \* locals of each goroutine
    gh,         \* history of the current operation of each goroutine
    result,     \* what the operation returned
    cancelled,  \* the operation's context is done
    probe,      \* input and output of a direct calculateRetryDelay call
    apiErr,     \* result of a direct NewAPIError call
    flt         \* a Filter, the result of its Apply, and a direct taskHasTag call

vars == <<token, tokenExp, mu, now, issued, stamp, retryConf, pc, op, lv, gh,
          result, cancelled, probe, apiErr, flt>>

shared == <<token, tokenExp, mu, issued, stamp>>

\* ------------------------------------------------------------------ errors
KindNo404(status) ==
    CASE status = StatusUnauthorized -> "unauthorized"
      [] status = StatusTooManyRequests -> "rateLimited"
      [] status = StatusBadRequest -> "badRequest"
      [] OTHER -> IF status >= StatusInternalServerError THEN "serverError"
                  ELSE "unspecified"

KindNo401(status) ==
    CASE status = StatusNotFound -> "notFound"
      [] status = StatusTooManyRequests -> "rateLimited"
      [] status = StatusBadRequest -> "badRequest"
      [] OTHER -> IF status >= StatusInternalServerError THEN "serverError"
                  ELSE "unspecified"

\* NewAPIError: the sentinel the status maps to.
Kind(status) ==
    CASE status = StatusUnauthorized -> "unauthorized"
      [] status = StatusNotFound -> "notFound"
      [] status = StatusTooManyRequests -> "rateLimited"
      [] status = StatusBadRequest -> "badRequest"
      [] OTHER -> IF status >= StatusInternalServerError THEN "serverError"
                  ELSE "unspecified"

Nil == [t |-> "nil", status |-> 0, kind |-> "none", val |-> FALSE]
\* err == nil together with the decoded value
Success == [t |-> "nil", status |-> 0, kind |-> "none", val |-> TRUE]
\* NewAPIError(resp, body)
APIErr(status) == [t |-> "api", status |-> status, kind |-> Kind(status), val |-> FALSE]
WrappedAsAPIError(cause) == [t |-> "api", status |-> 0, kind |-> cause, val |-> FALSE]

\* fmt.Errorf("...: %w", err): a plain error wrapping its cause
Wrapped(cause) == [t |-> "wrapped", status |-> 0, kind |-> cause, val |-> FALSE]
\* the structured error of a pure transport failure (statusCode 0)
TransportErr == [t |-> "api", status |-> 0, kind |-> "transport", val |-> FALSE]

\* What an exchange can come back with when the context is not done: no
\* response, or a status with a body. The body matters for a 2xx answer only:
\* JSON with a token, JSON without one, or no JSON.
Outcomes(statuses) ==
    {[terr |-> FALSE, status |-> s, body |-> b] :
        s \in {x \in statuses : x >= 200 /\ x <= 299}, b \in {"token", "empty", "garbage"}}
    \cup {[terr |-> FALSE, status |-> s, body |-> "none"] :
        s \in {x \in statuses : x < 200 \/ x > 299}}
    \cup {[terr |-> TRUE, status |-> 0, body |-> "none"]}

IsOKAny2xx(status) == status >= 200 /\ status <= 299

\* resp.StatusCode == http.StatusOK
IsOK(status) == status = StatusOK

\* ------------------------------------------------------------ the RWMutex
CanRLock(p) == mu.writer = NoProc

CanLockAlways(p) == TRUE

\* c.mu.Lock() returns once no goroutine holds the lock in either mode.
CanLock(p) == mu.writer = NoProc /\ mu.readers = {}

RLocked(p) == [mu EXCEPT !.readers = @ \cup {p}]

RUnlockedNever(p) == mu

RUnlocked(p) == [mu EXCEPT !.readers = @ \ {p}]

Locked(p) == [mu EXCEPT !.writer = p]

UnlockedNever(p) == mu

Unlocked(p) == [mu EXCEPT !.writer = NoProc]

\* ----------------------------------------------------- words of the claims
\* The retryable outcomes: a transport failure, 429, and 500..599.
RetryableOutcome(terr, status) ==
    terr \/ status = 429 \/ (status >= 500 /\ status <= 599)

SuccessStatus(status) == status >= 200 /\ status <= 299

Min(a, b) == IF a < b THEN a ELSE b

InFlight == {"au_wait", "rt_wait", "cu_wait", "rq_wait"}

\* -------------------------------------------------------------- the state
LV0 == [tok |-> NoToken, exp |-> 0, tokBy |-> 0, expBy |-> 0, resp |-> NoToken,
        xid |-> 0, attempt |-> 0, sleep |-> 0]

\* History of one operation: the login, refresh and data requests sent; the
\* retryable failures among the data attempts; what ensureAuthenticated saw
\* (eaGap); how the refresh failed (rfail) and the status it was answered
\* with (rst); how the login ended (lres) and its status (lst); the outcome of
\* the last data attempt (last, lastStatus) and the status of the first; the
\* number of times ensureAuthenticated was entered (ensures). rfail is "empty"
\* when refreshToken found no token to refresh and logged in instead.
\* code is the second-factor code the caller supplied and totp the totp field
\* of the login form that was sent for it ("absent" when the form has none);
\* had tells whether AuthenticateWith2FA was called while a token was stored
\* that ensureAuthenticated would have used as it is.
GH0 == [logins |-> 0, refreshes |-> 0, attempts |-> 0, fails |-> 0, ensures |-> 0,
        eaGap |-> "none", rfail |-> "none", last |-> "none", lastStatus |-> 0,
        sentEmpty |-> FALSE,
        lres |-> "none", lst |-> 0, rst |-> 0, firstStatus |-> 0,
        code |-> "", totp |-> "absent", had |-> FALSE]

\* No Filter built, nothing applied, no taskHasTag call made.
FLT0 == [tasks |-> <<>>, filters |-> <<>>, out |-> <<>>, arr |-> "none",
         task |-> [ID |-> 0], tag |-> <<>>, has |-> FALSE]

DefaultRetryConfig == [MaxRetries |-> 3, BaseDelay |-> 1, MaxDelay |-> 30, Jitter |-> TRUE]

InitClient ==
    /\ token = NoToken
    /\ tokenExp = 0
    /\ mu = [writer |-> NoProc, readers |-> {}]
    /\ now = 0
    /\ issued = 0
    /\ stamp = [tok |-> 0, exp |-> 0]
    /\ pc = [p \in Procs |-> "idle"]
    /\ op = [p \in Procs |-> "none"]
    /\ lv = [p \in Procs |-> LV0]
    /\ gh = [p \in Procs |-> GH0]
    /\ result = [p \in Procs |-> Nil]
    /\ cancelled = [p \in Procs |-> FALSE]
    /\ probe = [n |-> 0, d |-> 0]
    /\ apiErr = Nil
    /\ flt = FLT0

Init ==
    /\ InitClient
    /\ retryConf = DefaultRetryConfig

ObservesCancelNever(p) == FALSE

\* httpClient.Do(req) with req built by NewRequestWithContext(ctx, ...): the
\* round trip fails with ctx.Err() once the context is done.
ObservesCancel(p) == cancelled[p]

Goto(p, l) ==
    /\ pc' = [pc EXCEPT ![p] = l]
    /\ UNCHANGED result

Finished(p, e) ==
    /\ pc' = [pc EXCEPT ![p] = "done"]
    /\ result' = [result EXCEPT ![p] = e]

EnsureReturnsIgnoringErr(p, e) ==
    IF op[p] \in {"currentUser", "doRequest"}
      THEN Goto(p, "gt_read")
      ELSE Finished(p, e)

\* ensureAuthenticated / authenticate / refreshToken return e to their caller:
\* CurrentUser and doRequest go on to read the token when err == nil.
EnsureReturns(p, e) ==
    IF e.t = "nil" /\ op[p] \in {"currentUser", "doRequest"}
      THEN Goto(p, "gt_read")
      ELSE Finished(p, e)

CallAuthenticateIgnoringCtx(p, g) ==
    /\ Goto(p, "au_wait")
    /\ gh' = [gh EXCEPT ![p] = [g EXCEPT !.logins = @ + 1]]

\* c.Authenticate(ctx) up to httpClient.Do, with g the goroutine's history so
\* far. httpClient.Do with a context that is already done sends nothing.
CallAuthenticate(p, g) ==
    IF cancelled[p]
      THEN /\ EnsureReturns(p, Wrapped("ctx"))
           /\ gh' = [gh EXCEPT ![p] = [g EXCEPT !.lres = "ctx"]]
      ELSE /\ Goto(p, "au_wait")
           /\ gh' = [gh EXCEPT ![p] = [g EXCEPT !.logins = @ + 1]]

\* ------------------------------------------------- the caller's goroutine
Start(p, o) ==
    /\ pc[p] = "idle"
    /\ o # "authenticate"
    /\ op' = [op EXCEPT ![p] = o]
    /\ Goto(p, "ea_rlock")
    /\ UNCHANGED <<shared, now, retryConf, lv, gh, cancelled, probe, apiErr, flt>>

\* Authenticate(ctx): authenticate(ctx, ""), whose form has no totp field
StartAuthenticate(p) ==
    /\ pc[p] = "idle"
    /\ op' = [op EXCEPT ![p] = "authenticate"]
    /\ CallAuthenticate(p, gh[p])
    /\ UNCHANGED <<shared, now, retryConf, lv, cancelled, probe, apiErr, flt>>

Return(p) ==
    /\ pc[p] = "done"
    /\ pc' = [pc EXCEPT ![p] = "idle"]
    /\ op' = [op EXCEPT ![p] = "none"]
    /\ lv' = [lv EXCEPT ![p] = LV0]
    /\ gh' = [gh EXCEPT ![p] = GH0]
    /\ result' = [result EXCEPT ![p] = Nil]
    /\ cancelled' = [cancelled EXCEPT ![p] = FALSE]
    /\ UNCHANGED <<shared, now, retryConf, probe, apiErr, flt>>

\* The caller cancels the context, or its deadline passes.
Cancel(p) ==
    /\ pc[p] \notin {"idle", "done"}
    /\ ~cancelled[p]
    /\ cancelled' = [cancelled EXCEPT ![p] = TRUE]
    /\ UNCHANGED <<shared, now, retryConf, pc, op, lv, gh, result, probe, apiErr, flt>>

Tick(t) ==
    /\ t > now
    /\ now' = t
    /\ UNCHANGED <<shared, retryConf, pc, op, lv, gh, result, cancelled, probe, apiErr, flt>>

\* ---------------------------------------------------- ensureAuthenticated
NeedsRefreshNoHorizon(t, exp) == t > exp

NeedsRefreshNotExpired(t, exp) == t + RenewalHorizon > exp /\ t <= exp

\* time.Now().Add(1 * time.Hour).After(tokenExp)
NeedsRefresh(t, exp) == t + RenewalHorizon > exp

\* History: how the time left until exp compares with one hour, at instant t.
Gap(t, exp) ==
    CASE exp - t < 0 -> "past"
      [] exp - t < 1 -> "lt"
      [] exp - t = 1 -> "eq"
      [] OTHER -> "gt"

\* c.mu.RLock(); token := c.token
EaRLock(p) ==
    /\ pc[p] = "ea_rlock"
    /\ CanRLock(p)
    /\ mu' = RLocked(p)
    /\ lv' = [lv EXCEPT ![p].tok = token, ![p].tokBy = stamp.tok]
    /\ gh' = [gh EXCEPT ![p].ensures = @ + 1]
    /\ Goto(p, "ea_rexp")
    /\ UNCHANGED <<token, tokenExp, issued, stamp, now, retryConf, op,
                   cancelled, probe, apiErr, flt>>

\* tokenExp := c.tokenExp; c.mu.RUnlock()
EaReadExp(p) ==
    /\ pc[p] = "ea_rexp"
    /\ lv' = [lv EXCEPT ![p].exp = tokenExp, ![p].expBy = stamp.exp]
    /\ mu' = RUnlocked(p)
    /\ Goto(p, "ea_test")
    /\ UNCHANGED <<token, tokenExp, issued, stamp, now, retryConf, op, gh,
                   cancelled, probe, apiErr, flt>>

\* The two tests on the snapshot, which is dead afterwards.
EaTest(p) ==
    /\ pc[p] = "ea_test"
    /\ lv' = [lv EXCEPT ![p].tok = NoToken, ![p].exp = 0, ![p].tokBy = 0, ![p].expBy = 0]
    /\ LET g == [gh[p] EXCEPT !.eaGap = IF lv[p].tok = NoToken THEN "empty"
                                        ELSE Gap(now, lv[p].exp)]
       IN  IF lv[p].tok = NoToken
             THEN CallAuthenticate(p, g)
             ELSE /\ gh' = [gh EXCEPT ![p] = g]
                  /\ IF NeedsRefresh(now, lv[p].exp)
                       THEN Goto(p, "rt_read")
                       ELSE EnsureReturns(p, Nil)
    /\ UNCHANGED <<shared, now, retryConf, op, cancelled, probe, apiErr, flt>>

\* ------------------------------------------------------------ authenticate
DecodedTokenFirstIssued(body, fresh) == IF body = "token" THEN 1 ELSE NoToken

\* json.Decode into authResponse: a body without a token field leaves Token "".
DecodedToken(body, fresh) == IF body = "token" THEN fresh ELSE NoToken

ServerCanAnswer(r) == issued < MaxIssued

ExpiryAtUnchanged(t) == tokenExp

ExpiryAtShortRenewal(t) ==
    IF issued > 1 THEN t + RenewalHorizon ELSE t + TokenLifetime

\* time.Now().Add(23 * time.Hour)
ExpiryAt(t) == t + TokenLifetime

\* httpClient.Do fails, the status is not 200, or the body does not decode.
AuthFail(p) ==
    /\ pc[p] = "au_wait"
    /\ IF ObservesCancel(p)
         THEN /\ EnsureReturns(p, Wrapped("ctx"))
              /\ gh' = [gh EXCEPT ![p].lres = "ctx"]
         ELSE \E r \in Outcomes(AuthStatuses) :
                /\ r.terr \/ ~IsOK(r.status) \/ r.body = "garbage"
                /\ gh' = [gh EXCEPT ![p].lres = CASE r.terr -> "transport"
                                                  [] ~r.terr /\ ~IsOK(r.status) -> "status"
                                                  [] OTHER -> "decode",
                                    ![p].lst = r.status]
                /\ EnsureReturns(p, CASE r.terr -> Wrapped("transport")
                                      [] ~r.terr /\ ~IsOK(r.status) -> APIErr(r.status)
                                      [] OTHER -> Wrapped("decode"))
    /\ UNCHANGED <<shared, now, retryConf, op, lv, cancelled, probe, apiErr, flt>>

AuthRecv(p) ==
    /\ pc[p] = "au_wait"
    /\ ~cancelled[p]
    /\ \E r \in Outcomes(AuthStatuses) :
          /\ ~r.terr /\ IsOK(r.status) /\ r.body \in {"token", "empty"}
          /\ ServerCanAnswer(r)
          /\ lv' = [lv EXCEPT ![p].resp = DecodedToken(r.body, issued + 1),
                              ![p].xid = issued + 1]
          /\ issued' = issued + 1
          /\ gh' = [gh EXCEPT ![p].lres = "ok", ![p].lst = r.status]
    /\ Goto(p, "au_lock")
    /\ UNCHANGED <<token, tokenExp, mu, stamp, now, retryConf, op, cancelled, probe, apiErr, flt>>

\* c.mu.Lock(); c.token = authResp.Token
AuthLock(p) ==
    /\ pc[p] = "au_lock"
    /\ CanLock(p)
    /\ mu' = Locked(p)
    /\ token' = lv[p].resp
    /\ stamp' = [stamp EXCEPT !.tok = lv[p].xid]
    /\ lv' = [lv EXCEPT ![p].resp = NoToken]
    /\ Goto(p, "au_wexp")
    /\ UNCHANGED <<tokenExp, issued, now, retryConf, op, gh, cancelled, probe, apiErr, flt>>

\* c.tokenExp = time.Now().Add(23 * time.Hour); c.mu.Unlock(); return nil
AuthWriteExp(p) ==
    /\ pc[p] = "au_wexp"
    /\ tokenExp' = ExpiryAt(now)
    /\ mu' = Unlocked(p)
    /\ stamp' = [stamp EXCEPT !.exp = lv[p].xid]
    /\ lv' = [lv EXCEPT ![p].xid = 0]
    /\ EnsureReturns(p, Nil)
    /\ UNCHANGED <<token, issued, now, retryConf, op, gh, cancelled, probe, apiErr, flt>>

\* ------------------------------------------------------------ refreshToken
\* What refreshToken does with a failed exchange: "fallback" calls
\* Authenticate, anything else is wrapped and returned to the caller.
RefreshFailureAlwaysFallback(why) == "fallback"

RefreshFailure(why) ==
    CASE why = "status" -> "fallback"
      [] why = "ctx" -> "ctx"
      [] why = "transport" -> "transport"
      [] why = "decode" -> "decode"

CurrentTokenFirstIssued(p) == IF token = NoToken THEN NoToken ELSE 1

\* c.mu.RLock(); currentToken := c.token; c.mu.RUnlock()
CurrentToken(p) == token

\* The snapshot of the token: an empty one goes to Authenticate, any other is
\* sent as old_token (lv.tok while the refresh request is in flight).
RtRead(p) ==
    /\ pc[p] = "rt_read"
    /\ CanRLock(p)
    /\ IF CurrentToken(p) = NoToken
         THEN /\ CallAuthenticate(p, [gh[p] EXCEPT !.rfail = "empty"])
              /\ UNCHANGED lv
         ELSE IF cancelled[p]
                THEN /\ EnsureReturns(p, Wrapped("ctx"))
                     /\ gh' = [gh EXCEPT ![p].rfail = "ctx"]
                     /\ UNCHANGED lv
                ELSE /\ Goto(p, "rt_wait")
                     /\ gh' = [gh EXCEPT ![p].refreshes = @ + 1]
                     /\ lv' = [lv EXCEPT ![p].tok = CurrentToken(p)]
    /\ UNCHANGED <<shared, now, retryConf, op, cancelled, probe, apiErr, flt>>

RtFailed(p, why, status) ==
    LET g == [gh[p] EXCEPT !.rfail = why, !.rst = status]
    IN  IF RefreshFailure(why) = "fallback"
          THEN CallAuthenticate(p, g)
          ELSE /\ EnsureReturns(p, Wrapped(RefreshFailure(why)))
               /\ gh' = [gh EXCEPT ![p] = g]

RtFail(p) ==
    /\ pc[p] = "rt_wait"
    /\ IF ObservesCancel(p)
         THEN RtFailed(p, "ctx", 0)
         ELSE \E r \in Outcomes(AuthStatuses) :
                /\ r.terr \/ ~IsOK(r.status) \/ r.body = "garbage"
                /\ RtFailed(p, CASE r.terr -> "transport"
                                 [] ~r.terr /\ ~IsOK(r.status) -> "status"
                                 [] OTHER -> "decode",
                               r.status)
    /\ lv' = [lv EXCEPT ![p].tok = NoToken]
    /\ UNCHANGED <<shared, now, retryConf, op, cancelled, probe, apiErr, flt>>

RtRecv(p) ==
    /\ pc[p] = "rt_wait"
    /\ ~cancelled[p]
    /\ \E r \in Outcomes(AuthStatuses) :
          /\ ~r.terr /\ IsOK(r.status) /\ r.body \in {"token", "empty"}
          /\ ServerCanAnswer(r)
          /\ lv' = [lv EXCEPT ![p].resp = DecodedToken(r.body, issued + 1),
                              ![p].xid = issued + 1, ![p].tok = NoToken]
          /\ issued' = issued + 1
          /\ gh' = [gh EXCEPT ![p].rst = r.status]
    /\ Goto(p, "rt_lock")
    /\ UNCHANGED <<token, tokenExp, mu, stamp, now, retryConf, op, cancelled, probe, apiErr, flt>>

\* c.mu.Lock(); c.token = authResp.Token
RtLock(p) ==
    /\ pc[p] = "rt_lock"
    /\ CanLock(p)
    /\ mu' = Locked(p)
    /\ token' = lv[p].resp
    /\ stamp' = [stamp EXCEPT !.tok = lv[p].xid]
    /\ lv' = [lv EXCEPT ![p].resp = NoToken]
    /\ Goto(p, "rt_wexp")
    /\ UNCHANGED <<tokenExp, issued, now, retryConf, op, gh, cancelled, probe, apiErr, flt>>

\* c.tokenExp = time.Now().Add(23 * time.Hour); c.mu.Unlock(); return nil
RtWriteExp(p) ==
    /\ pc[p] = "rt_wexp"
    /\ tokenExp' = ExpiryAt(now)
    /\ mu' = Unlocked(p)
    /\ stamp' = [stamp EXCEPT !.exp = lv[p].xid]
    /\ lv' = [lv EXCEPT ![p].xid = 0]
    /\ EnsureReturns(p, Nil)
    /\ UNCHANGED <<token, issued, now, retryConf, op, gh, cancelled, probe, apiErr, flt>>

\* -------------------------------------------------- getToken, CurrentUser
\* getToken (RLock; return c.token; deferred RUnlock), the X-Client-Token
\* header, and httpClient.Do.
GtRead(p) ==
    /\ pc[p] = "gt_read"
    /\ CanRLock(p)
    /\ IF cancelled[p]
         THEN /\ Finished(p, Wrapped("ctx"))
              /\ UNCHANGED gh
         ELSE /\ Goto(p, IF op[p] = "currentUser" THEN "cu_wait" ELSE "rq_wait")
              /\ gh' = [gh EXCEPT ![p].attempts = @ + 1,
                                  ![p].sentEmpty = (token = NoToken)]
    /\ UNCHANGED <<shared, now, retryConf, op, lv, cancelled, probe, apiErr, flt>>

CuRecv(p) ==
    /\ pc[p] = "cu_wait"
    /\ IF ObservesCancel(p)
         THEN /\ Finished(p, Wrapped("ctx"))
              /\ gh' = [gh EXCEPT ![p].last = "cancelled", ![p].lastStatus = 0]
         ELSE \E r \in Outcomes(DataStatuses) :
                /\ gh' = [gh EXCEPT ![p].last = IF r.terr THEN "transport" ELSE "status",
                                    ![p].lastStatus = r.status]
                /\ Finished(p, CASE r.terr -> Wrapped("transport")
                                 [] ~r.terr /\ ~IsOK(r.status) -> APIErr(r.status)
                                 [] ~r.terr /\ IsOK(r.status) /\ r.body = "garbage"
                                       -> Wrapped("decode")
                                 [] OTHER -> Success)
    /\ UNCHANGED <<shared, now, retryConf, op, lv, cancelled, probe, apiErr, flt>>

\* ------------------------------------------------------ calculateRetryDelay
RECURSIVE Pow2(_)
Pow2(n) == IF n <= 0 THEN 1 ELSE 2 * Pow2(n - 1)

RawDelayHalved(n, conf) == conf.BaseDelay * Pow2(n - 1)

\* raw = baseDelay * 2^attemptNumber
RawDelay(n, conf) == conf.BaseDelay * Pow2(n)

CappedDelayUncapped(n, conf) == RawDelay(n, conf)

\* ... capped at maxDelay
CappedDelay(n, conf) ==
    IF RawDelay(n, conf) > conf.MaxDelay THEN conf.MaxDelay ELSE RawDelay(n, conf)

\* What the calculator answers for an attempt number that is not positive.
PreconditionViolation == 0 - 1

calculateRetryDelayNoPrecondition(n, conf) ==
    IF conf.Jitter THEN 0 .. CappedDelay(n, conf) ELSE {CappedDelay(n, conf)}

calculateRetryDelayJitterOnRaw(n, conf) ==
    CASE n <= 0 -> {PreconditionViolation}
      [] conf.Jitter -> 0 .. RawDelay(n, conf)
      [] OTHER -> {CappedDelay(n, conf)}

\* The delays calculateRetryDelay(n) can return: the capped value, or with
\* jitter any duration from 0 up to it; a precondition violation for n <= 0.
calculateRetryDelay(n, conf) ==
    CASE n <= 0 -> {PreconditionViolation}
      [] conf.Jitter -> 0 .. CappedDelay(n, conf)
      [] OTHER -> {CappedDelay(n, conf)}

\* -------------------------------------------------------------- doRequest
ClassifyOnly200(r) ==
    CASE r.terr -> "retryable"
      [] r.status = StatusTooManyRequests -> "retryable"
      [] r.status >= StatusInternalServerError /\ r.status <= 599 -> "retryable"
      [] r.status = StatusOK -> "success"
      [] OTHER -> "fatal"

\* The Error Classifier's verdict on an outcome that is not a cancellation.
Classify(r) ==
    CASE r.terr -> "retryable"
      [] r.status = StatusTooManyRequests -> "retryable"
      [] r.status >= StatusInternalServerError /\ r.status <= 599 -> "retryable"
      [] r.status >= StatusOK /\ r.status <= 299 -> "success"
      [] OTHER -> "fatal"

ErrorOfExhausted(r) == [t |-> "api", status |-> 0, kind |-> "exhausted", val |-> FALSE]

\* The structured API error of a failed attempt.
ErrorOf(r) == IF r.terr THEN TransportErr ELSE APIErr(r.status)

NextAttemptNumberSame(attempt) == attempt

\* the next attempt number: the counter starts at 0, the first retry is 1
NextAttemptNumber(attempt) == attempt + 1

BudgetLeftShared(attempt, conf) ==
    lv["g1"].attempt + lv["g2"].attempt < conf.MaxRetries

BudgetLeftOneMore(attempt, conf) == attempt <= conf.MaxRetries

\* the attempt counter has not reached policy.maxRetries
BudgetLeft(attempt, conf) == attempt < conf.MaxRetries

\* Outcomes of a data exchange whose body, if any, decodes.
ExecOutcomes == {r \in Outcomes(DataStatuses) : r.body \in {"none", "token"}}

RqRecv(p) ==
    /\ pc[p] = "rq_wait"
    /\ IF ObservesCancel(p)
         THEN /\ Finished(p, Wrapped("ctx"))
              /\ gh' = [gh EXCEPT ![p].last = "cancelled", ![p].lastStatus = 0]
              /\ UNCHANGED lv
         ELSE \E r \in ExecOutcomes :
                /\ gh' = [gh EXCEPT ![p].last = IF r.terr THEN "transport" ELSE "status",
                                    ![p].lastStatus = r.status,
                                    ![p].firstStatus = IF gh[p].attempts = 1
                                                       THEN r.status ELSE @,
                                    ![p].fails = IF RetryableOutcome(r.terr, r.status)
                                                 THEN @ + 1 ELSE @]
                /\ CASE Classify(r) = "success" ->
                          Finished(p, Success) /\ UNCHANGED lv
                     [] Classify(r) = "fatal" ->
                          Finished(p, ErrorOf(r)) /\ UNCHANGED lv
                     [] OTHER ->
                          IF BudgetLeft(lv[p].attempt, retryConf)
                            THEN /\ \E d \in calculateRetryDelay(NextAttemptNumber(lv[p].attempt),
                                                            retryConf) :
                                       lv' = [lv EXCEPT ![p].sleep = d]
                                 /\ Goto(p, "rq_sleep")
                            ELSE Finished(p, ErrorOf(r)) /\ UNCHANGED lv
    /\ UNCHANGED <<shared, now, retryConf, op, cancelled, probe, apiErr, flt>>

\* One unit of the backoff timer passes.
RqSleepTick(p) ==
    /\ pc[p] = "rq_sleep"
    /\ ~cancelled[p]
    /\ lv[p].sleep > 0
    /\ lv' = [lv EXCEPT ![p].sleep = @ - 1]
    /\ UNCHANGED <<shared, now, retryConf, pc, op, gh, result, cancelled, probe, apiErr, flt>>

RetryTargetEnsure(p) == "ea_rlock"

\* Where a retry resumes: step 3, the transport call with the current token.
RetryTarget(p) == "gt_read"

CanWakeIgnoringCtx(p) == lv[p].sleep = 0

CanWakeEarly(p) == ~cancelled[p]

CanWake(p) == ~cancelled[p] /\ lv[p].sleep = 0

\* The delay has elapsed: increment the attempt counter and go to step 3.
RqWake(p) ==
    /\ pc[p] = "rq_sleep"
    /\ CanWake(p)
    /\ lv' = [lv EXCEPT ![p].attempt = @ + 1]
    /\ Goto(p, RetryTarget(p))
    /\ UNCHANGED <<shared, now, retryConf, op, gh, cancelled, probe, apiErr, flt>>

\* The context is done during the sleep: abort with the cancellation error.
RqSleepCancel(p) ==
    /\ pc[p] = "rq_sleep"
    /\ cancelled[p]
    /\ Finished(p, Wrapped("ctx"))
    /\ UNCHANGED <<shared, now, retryConf, op, lv, gh, cancelled, probe, apiErr, flt>>

\* A direct call of calculateRetryDelay(n).
Probe(n) ==
    /\ \E d \in calculateRetryDelay(n, retryConf) : probe' = [n |-> n, d |-> d]
    /\ UNCHANGED <<shared, now, retryConf, pc, op, lv, gh, result, cancelled, apiErr, flt>>

TokenManagerStep(p) ==
    \/ EaRLock(p) \/ EaReadExp(p) \/ EaTest(p)
    \/ AuthFail(p) \/ AuthRecv(p) \/ AuthLock(p) \/ AuthWriteExp(p)
    \/ RtRead(p) \/ RtFail(p) \/ RtRecv(p) \/ RtLock(p) \/ RtWriteExp(p)

Next ==
    \/ \E p \in Procs : \E o \in {"ensure", "currentUser"} : Start(p, o)
    \/ \E p \in Procs : StartAuthenticate(p)
    \/ \E p \in Procs : TokenManagerStep(p)
    \/ \E p \in Procs : GtRead(p) \/ CuRecv(p)
    \/ \E p \in Procs : Return(p)
    \/ \E t \in Times : Tick(t)

Spec == Init /\ [][Next]_vars

\* --------------------------------------- calls through the request helper
ExecConfigs ==
    [MaxRetries : 0 .. MaxRetriesBound, BaseDelay : {1}, MaxDelay : {2},
     Jitter : BOOLEAN]

InitExec ==
    /\ InitClient
    /\ retryConf \in ExecConfigs

\* One goroutine issues calls; the other may log in explicitly meanwhile.
Callers == {"g1"}

NextExec ==
    \/ \E p \in Callers : Start(p, "doRequest")
    \/ \E p \in Procs \ Callers : StartAuthenticate(p)
    \/ \E p \in Procs : EaRLock(p) \/ EaReadExp(p) \/ EaTest(p)
    \/ \E p \in Procs : AuthFail(p) \/ AuthRecv(p) \/ AuthLock(p) \/ AuthWriteExp(p)
    \/ \E p \in Procs : GtRead(p) \/ RqRecv(p)
    \/ \E p \in Procs : RqSleepTick(p) \/ RqWake(p) \/ RqSleepCancel(p)
    \/ \E p \in Procs : Cancel(p)
    \/ \E p \in Procs : Return(p)

SpecExec == InitExec /\ [][NextExec]_vars

\* ------------------------------------- direct calls of calculateRetryDelay
DelayConfigs ==
    {c \in [MaxRetries : {3}, BaseDelay : 1 .. MaxBaseDelay,
            MaxDelay : 1 .. MaxMaxDelay, Jitter : BOOLEAN] :
        c.MaxDelay >= c.BaseDelay}

InitDelay ==
    /\ InitClient
    /\ retryConf \in DelayConfigs

NextDelay == \E n \in 1 .. MaxAttemptNo : Probe(n)

SpecDelay == InitDelay /\ [][NextDelay]_vars

\* ------------------------- one caller, the clock and the caller's context
NextCancel ==
    \/ \E p \in Callers : Start(p, "doRequest")
    \/ \E p \in Callers : TokenManagerStep(p)
    \/ \E p \in Callers : GtRead(p) \/ RqRecv(p)
    \/ \E p \in Callers : RqSleepTick(p) \/ RqWake(p) \/ RqSleepCancel(p)
    \/ \E p \in Callers : Cancel(p)
    \/ \E p \in Callers : Return(p)
    \/ \E t \in Times : Tick(t)

SpecCancel == InitExec /\ [][NextCancel]_vars

\* ------------------- one caller of every operation, scheduled fairly
\* The clock is observed at the start, at the last instant of the other
\* specifications and one hour later, when a token stored at the start has
\* expired.
LiveTimes == {0, MaxTime, MaxTime + 1}

LiveConfigs ==
    [MaxRetries : {MaxRetriesBound}, BaseDelay : {1}, MaxDelay : {1},
     Jitter : BOOLEAN]

InitLive ==
    /\ InitClient
    /\ retryConf \in LiveConfigs

\* The steps of a call that the runtime and the network take for it.
CallStep(p) ==
    \/ TokenManagerStep(p)
    \/ GtRead(p) \/ CuRecv(p) \/ RqRecv(p)
    \/ RqSleepTick(p) \/ RqWake(p) \/ RqSleepCancel(p)

NextLive ==
    \/ \E p \in Callers : \E o \in {"ensure", "currentUser", "doRequest"} : Start(p, o)
    \/ \E p \in Callers : StartAuthenticate(p)
    \/ \E p \in Callers : CallStep(p)
    \/ \E p \in Callers : Cancel(p)
    \/ \E p \in Callers : Return(p)
    \/ \E t \in LiveTimes : Tick(t)

\* A runnable goroutine is scheduled, every exchange returns and every timer
\* fires.
SpecLive == InitLive /\ [][NextLive]_vars /\ \A p \in Callers : WF_vars(CallStep(p))

\* ---------------------- two concurrent calls through the request helper
TwoConfigs ==
    [MaxRetries : 1 .. MaxRetriesBound, BaseDelay : {1}, MaxDelay : {MaxMaxDelay},
     Jitter : {FALSE}]

\* A client that logged in at the start: the token is fresh.
InitTwo ==
    /\ token = 1
    /\ tokenExp = ExpiryAt(0)
    /\ mu = [writer |-> NoProc, readers |-> {}]
    /\ now = 0
    /\ issued = 1
    /\ stamp = [tok |-> 1, exp |-> 1]
    /\ pc = [p \in Procs |-> "idle"]
    /\ op = [p \in Procs |-> "none"]
    /\ lv = [p \in Procs |-> LV0]
    /\ gh = [p \in Procs |-> GH0]
    /\ result = [p \in Procs |-> Nil]
    /\ cancelled = [p \in Procs |-> FALSE]
    /\ probe = [n |-> 0, d |-> 0]
    /\ apiErr = Nil
    /\ flt = FLT0
    /\ retryConf \in TwoConfigs

NextTwo ==
    \/ \E p \in Procs : Start(p, "doRequest")
    \/ \E p \in Procs : EaRLock(p) \/ EaReadExp(p) \/ EaTest(p)
    \/ \E p \in Procs : GtRead(p) \/ RqRecv(p)
    \/ \E p \in Procs : RqSleepTick(p) \/ RqWake(p)
    \/ \E p \in Procs : Return(p)

SpecTwo == InitTwo /\ [][NextTwo]_vars

\* ------------------------------------------------- NewClient with options
\* customRetry of TestNewClient_WithOptions: {MaxRetries: 5, BaseDelay: 2s},
\* the fields left out being the zero values.
PartialRetryConfig == [MaxRetries |-> 5, BaseDelay |-> 2, MaxDelay |-> 0, Jitter |-> FALSE]

\* The RetryConfig values a caller can hand to WithRetryConfig.
OptionConfigs ==
    [MaxRetries : 0 .. MaxRetriesBound, BaseDelay : 0 .. MaxBaseDelay,
     MaxDelay : 0 .. MaxMaxDelay, Jitter : BOOLEAN]
    \cup {PartialRetryConfig}

\* NewClient applies the option: c.retryConf = config
WithRetryConfig(config) ==
    /\ retryConf' = config
    /\ UNCHANGED <<shared, now, pc, op, lv, gh, result, cancelled, probe, apiErr, flt>>

\* NewClient: the defaults, then each option in turn.
NextNew == \E config \in OptionConfigs : WithRetryConfig(config)

SpecNew == Init /\ [][NextNew]_vars

\* ------------------------------------------------------------------ Filter
\* A string is a sequence of characters.
Chars == {"a", "A", "b", ",", " "}
Letters == {"a", "A", "b"}

LowerChar(c) == IF c = "A" THEN "a" ELSE c

\* strings.ToLower
ToLower(s) == [i \in 1 .. Len(s) |-> LowerChar(s[i])]

RECURSIVE TrimLeft(_)
TrimLeft(s) == IF s # <<>> /\ Head(s) = " " THEN TrimLeft(Tail(s)) ELSE s

RECURSIVE TrimRight(_)
TrimRight(s) ==
    IF s # <<>> /\ s[Len(s)] = " " THEN TrimRight(SubSeq(s, 1, Len(s) - 1)) ELSE s

\* strings.TrimSpace
TrimSpace(s) == TrimRight(TrimLeft(s))

\* strings.Split(s, ",")
RECURSIVE Split(_)
Split(s) ==
    IF \A i \in 1 .. Len(s) : s[i] # ","
      THEN <<s>>
      ELSE LET i == CHOOSE j \in 1 .. Len(s) :
                        s[j] = "," /\ \A k \in 1 .. (j - 1) : s[k] # ","
           IN  <<SubSeq(s, 1, i - 1)>> \o Split(SubSeq(s, i + 1, Len(s)))

\* Tags (map[string]bool): nil, or a map m from some keys to booleans.
TagsNil == [nil |-> TRUE, m |-> <<>>]
TagKeys == {<<"a">>, <<"A">>}
TagMaps ==
    {TagsNil} \cup {[nil |-> FALSE, m |-> f] :
                       f \in UNION {[K -> BOOLEAN] : K \in SUBSET TagKeys}}

NoTask == [ID |-> 0, Tags |-> TagsNil, TagsAsText |-> <<>>, Status |-> StatusOpen]

\* t.Tags[tag]: false for a nil map and for a missing key
TagsLookup(tags, tag) == ~tags.nil /\ tag \in DOMAIN tags.m /\ tags.m[tag]

taskHasTag(t, tag) ==
    IF TagsLookup(t.Tags, tag)
      THEN TRUE
      ELSE IF t.TagsAsText = <<>>
             THEN FALSE
             ELSE \E i \in 1 .. Len(Split(t.TagsAsText)) :
                     ToLower(TrimSpace(Split(t.TagsAsText)[i])) = ToLower(tag)

\* The predicate a builder method appends: WithTag(tag) or WithStatus(status).
FilterFn(f, t) ==
    IF f.kind = "tag" THEN taskHasTag(t, f.tag) ELSE t.Status = f.status

RECURSIVE matchesAnyFrom(_, _, _)
matchesAnyFrom(filters, i, t) ==
    IF i > Len(filters) THEN FALSE
    ELSE IF FilterFn(filters[i], t) THEN TRUE
    ELSE matchesAnyFrom(filters, i + 1, t)

\* The loop of Filter.matches from the i-th predicate on: false at the first
\* predicate the task fails.
RECURSIVE matchesFrom(_, _, _)
matchesFrom(filters, i, t) ==
    IF i > Len(filters) THEN TRUE
    ELSE IF ~FilterFn(filters[i], t) THEN FALSE
    ELSE matchesFrom(filters, i + 1, t)

matchesAny(filters, t) == matchesAnyFrom(filters, 1, t)

\* Filter.matches
matches(filters, t) == matchesFrom(filters, 1, t)

\* The loop of Filter.Apply from the i-th task on, res being the result slice
\* appended to so far.
RECURSIVE ApplyFrom(_, _, _, _)
ApplyFrom(tasks, filters, i, res) ==
    IF i > Len(tasks) THEN res
    ELSE ApplyFrom(tasks, filters, i + 1,
                   IF matches(filters, tasks[i])
                     THEN Append(res, tasks[i]) ELSE res)

CopyOfAlias(tasks) == [arr |-> "input", elems |-> tasks]

\* result := make([]Task, len(f.tasks)); copy(result, f.tasks)
CopyOf(tasks) == [arr |-> "fresh", elems |-> [i \in 1 .. Len(tasks) |-> tasks[i]]]

\* Filter.Apply: the slice returned and the array that backs it.
ApplyResult(tasks, filters) ==
    IF Len(filters) = 0
      THEN CopyOf(tasks)
      ELSE [arr |-> "fresh", elems |-> ApplyFrom(tasks, filters, 1, <<>>)]

\* The tasks and predicates the builder is driven with.
FilterTasks ==
    {[ID |-> 1, Tags |-> TagsNil, TagsAsText |-> <<"a">>, Status |-> StatusOpen],
     [ID |-> 2, Tags |-> TagsNil, TagsAsText |-> <<"A", ",", "b">>, Status |-> StatusClosed],
     [ID |-> 3, Tags |-> [nil |-> FALSE, m |-> [k \in {<<"a">>} |-> TRUE]],
      TagsAsText |-> <<>>, Status |-> StatusOpen],
     [ID |-> 4, Tags |-> TagsNil, TagsAsText |-> <<"b">>, Status |-> StatusClosed]}

TaskSlices == UNION {[1 .. n -> FilterTasks] : n \in 0 .. MaxTasks}

FilterArgs ==
    {[kind |-> "tag", tag |-> <<"a">>, status |-> StatusOpen],
     [kind |-> "tag", tag |-> <<"b">>, status |-> StatusOpen],
     [kind |-> "status", tag |-> <<>>, status |-> StatusOpen],
     [kind |-> "status", tag |-> <<>>, status |-> StatusClosed]}

\* A behaviour follows one Filter from NewFilter to Apply.
NewFilter(tasks) ==
    /\ flt = FLT0
    /\ flt' = [FLT0 EXCEPT !.tasks = tasks]
    /\ UNCHANGED <<shared, now, retryConf, pc, op, lv, gh, result, cancelled,
                   probe, apiErr>>

\* WithTag / WithStatus: f.filters = append(f.filters, ...)
WithFilter(f) ==
    /\ flt.arr = "none"
    /\ Len(flt.filters) < MaxFilters
    /\ flt' = [flt EXCEPT !.filters = Append(@, f)]
    /\ UNCHANGED <<shared, now, retryConf, pc, op, lv, gh, result, cancelled,
                   probe, apiErr>>

Apply ==
    /\ flt.arr = "none"
    /\ LET r == ApplyResult(flt.tasks, flt.filters)
       IN  flt' = [flt EXCEPT !.out = r.elems, !.arr = r.arr]
    /\ UNCHANGED <<shared, now, retryConf, pc, op, lv, gh, result, cancelled,
                   probe, apiErr>>

NextFilter ==
    \/ \E tasks \in TaskSlices : NewFilter(tasks)
    \/ \E f \in FilterArgs : WithFilter(f)
    \/ Apply

SpecFilter == Init /\ [][NextFilter]_vars

\* ------------------------------------------- direct calls of taskHasTag
Texts == UNION {[1 .. n -> Chars] : n \in 0 .. MaxTextLen}
TagArgs == UNION {[1 .. n -> Letters] : n \in 1 .. 2}

TagTasks ==
    {[ID |-> 1, Tags |-> m, TagsAsText |-> s, Status |-> StatusOpen] :
        m \in TagMaps, s \in Texts}

\* taskHasTag(t, tag), as the predicate of WithTag(tag) calls it.
TaskHasTag(t, tag) ==
    /\ flt' = [flt EXCEPT !.task = t, !.tag = tag, !.has = taskHasTag(t, tag)]
    /\ UNCHANGED <<shared, now, retryConf, pc, op, lv, gh, result, cancelled,
                   probe, apiErr>>

\* A behaviour is one call.
NextTag == flt = FLT0 /\ \E t \in TagTasks : \E tag \in TagArgs : TaskHasTag(t, tag)

SpecTag == Init /\ [][NextTag]_vars

\* --------------------------------------------- direct calls of NewAPIError
\* The status codes a response can carry.
ErrStatuses == 100 .. MaxStatus

\* NewAPIError(resp, message) for a response with status s.
NewAPIError(s) ==
    /\ apiErr' = APIErr(s)
    /\ UNCHANGED <<shared, now, retryConf, pc, op, lv, gh, result, cancelled, probe, flt>>

NextErr == \E s \in ErrStatuses : NewAPIError(s)

SpecErr == Init /\ [][NextErr]_vars


\* ------------------------------------------------------------------ claims

\* C1: a call never makes more than MaxRetries + 1 data attempts, and a call
\* whose context stays live and whose every attempt ended in a retryable
\* failure returns an error after exactly MaxRetries + 1 attempts.
C1_AttemptBudget ==
    \A p \in Procs : op[p] = "doRequest" =>
        /\ gh[p].attempts <= retryConf.MaxRetries + 1
        /\ (pc[p] = "done" /\ ~cancelled[p] /\ gh[p].attempts >= 1
              /\ gh[p].fails = gh[p].attempts)
           => /\ gh[p].attempts = retryConf.MaxRetries + 1
              /\ result[p].t = "api"

C1_Witness ==
    \E p \in Procs :
        /\ op[p] = "doRequest" /\ pc[p] = "done" /\ ~cancelled[p]
        /\ retryConf.MaxRetries = 2
        /\ gh[p].attempts = 3 /\ gh[p].fails = 3
        /\ result[p].t = "api" /\ result[p].kind = "serverError"

\* C2: a call whose last attempt was answered with a 2xx status, after k
\* retryable failures, returns no error with the decoded value and has made
\* exactly k + 1 attempts, k <= MaxRetries.
C2_SuccessAfterRetries ==
    \A p \in Procs :
        (op[p] = "doRequest" /\ pc[p] = "done" /\ gh[p].last = "status"
           /\ SuccessStatus(gh[p].lastStatus))
        => /\ result[p] = Success
           /\ gh[p].attempts = gh[p].fails + 1
           /\ gh[p].fails <= retryConf.MaxRetries

C2_Witness ==
    \E p \in Procs :
        /\ op[p] = "doRequest" /\ pc[p] = "done"
        /\ gh[p].last = "status" /\ gh[p].lastStatus = 200
        /\ gh[p].fails = 2 /\ gh[p].attempts = 3
        /\ result[p] = Success

\* C3: a further attempt is issued only after a transport, 429 or 5xx
\* failure; a call whose attempt was answered 401, 404, 400 or another
\* non-2xx, non-retryable status is over, with the API error of that status
\* and its kind (404: notFound, 401: unauthorized, 400: badRequest,
\* otherwise unspecified).
C3_FatalEnds ==
    \A p \in Procs :
        (op[p] = "doRequest" /\ gh[p].last = "status"
           /\ ~SuccessStatus(gh[p].lastStatus)
           /\ ~RetryableOutcome(FALSE, gh[p].lastStatus))
        => /\ pc[p] = "done"
           /\ result[p].t = "api"
           /\ result[p].status = gh[p].lastStatus
           /\ result[p].kind = CASE gh[p].lastStatus = 401 -> "unauthorized"
                                 [] gh[p].lastStatus = 404 -> "notFound"
                                 [] gh[p].lastStatus = 400 -> "badRequest"
                                 [] OTHER -> "unspecified"

C3_RetryOnlyRetryable ==
    [][\A p \in Procs :
          (op[p] = "doRequest" /\ gh[p].attempts >= 1
             /\ gh'[p].attempts = gh[p].attempts + 1)
          => RetryableOutcome(gh[p].last = "transport", gh[p].lastStatus)]_vars

C3_FatalNotRetried == []C3_FatalEnds /\ C3_RetryOnlyRetryable

C3_Witness ==
    \E p \in Procs :
        /\ op[p] = "doRequest" /\ pc[p] = "done"
        /\ gh[p].lastStatus = 404 /\ gh[p].attempts = 1
        /\ result[p].kind = "notFound"

\* C4: once the context is done while the call is in its backoff sleep, the
\* call's next step is to return the cancellation error, and it issues no
\* further attempt.
C4_SleepAborts ==
    [][\A p \in Procs :
          (pc[p] = "rq_sleep" /\ cancelled[p] /\ <<pc[p], lv[p], gh[p]>> # <<pc'[p], lv'[p], gh'[p]>>)
          => /\ pc'[p] = "done"
             /\ result'[p] = Wrapped("ctx")
             /\ gh'[p].attempts = gh[p].attempts]_vars

C4_Witness ==
    \E p \in Procs :
        /\ op[p] = "doRequest" /\ pc[p] = "done" /\ cancelled[p]
        /\ lv[p].sleep > 0
        /\ gh[p].attempts = 1
        /\ result[p] = Wrapped("ctx")

C6_RefreshWithinHorizon ==
    \A p \in Procs :
        (op[p] \in {"ensure", "currentUser"} /\ pc[p] \in {"done", "gt_read", "cu_wait"})
        => /\ gh[p].eaGap \in {"lt", "past"} => gh[p].refreshes = 1
           /\ gh[p].eaGap = "gt" => (gh[p].refreshes = 0 /\ gh[p].logins = 0)

\* C7: when an operation whose refresh exchange failed (status, transport or
\* body) is over, one fallback login exchange has been made.
C7_FallbackAfterAnyRefreshFailure ==
    \A p \in Procs :
        (pc[p] = "done" /\ gh[p].rfail \in {"status", "transport", "decode"})
        => gh[p].logins = 1

\* C8: a snapshot of (token, tokenExp) is the initial pair or the pair one
\* exchange wrote, and when all goroutines have returned without error from
\* an ensureAuthenticated that saw no token, a token is stored.
C8_ConcurrentLogin ==
    /\ \A p \in Procs : pc[p] = "ea_test" => lv[p].tokBy = lv[p].expBy
    /\ (\A p \in Procs : /\ op[p] = "ensure" /\ pc[p] = "done"
                         /\ gh[p].eaGap = "empty" /\ result[p].t = "nil")
       => token # NoToken

\* C9: a goroutine with an exchange in flight holds Client.mu neither shared
\* nor exclusive; the exclusive lock is held only between the write of token
\* and the write of tokenExp.
C9_NoLockAcrossNetwork ==
    \A p \in Procs :
        /\ pc[p] \in InFlight => (p \notin mu.readers /\ mu.writer # p)
        /\ mu.writer = p => pc[p] \in {"au_wexp", "rt_wexp"}
        /\ p \in mu.readers => pc[p] = "ea_rexp"

C9_Witness ==
    \E p, q \in Procs :
        /\ pc[p] \in {"au_wait", "rt_wait"}
        /\ mu.writer = q
        /\ gh[p].logins + gh[p].refreshes >= 1

\* C10: after ensureAuthenticated returned nil a token is stored, and no data
\* request carries an empty X-Client-Token.
C10_NeverEmptyHeader ==
    \A p \in Procs :
        /\ ~gh[p].sentEmpty
        /\ (op[p] = "currentUser" /\ pc[p] = "gt_read") => token # NoToken

\* C11: the stored token is never deleted, only overwritten: once a token is
\* stored, every step leaves a token stored.
C11_TokenNeverDeleted == [][token # NoToken => token' # NoToken]_vars

\* C12: a login answered 401 ends the call at that step with the API error of
\* status 401 and kind unauthorized, after one login request, and leaves
\* token and tokenExp as they were.
C12_Login401Fatal ==
    [][\A p \in Procs :
          (pc[p] = "au_wait" /\ gh'[p].lres = "status" /\ gh'[p].lst = 401
             /\ gh'[p] # gh[p])
          => /\ pc'[p] = "done"
             /\ result'[p].t = "api"
             /\ result'[p].status = 401
             /\ result'[p].kind = "unauthorized"
             /\ gh'[p].logins = 1
             /\ token' = token /\ tokenExp' = tokenExp]_vars

C12_Witness ==
    \E p \in Procs :
        /\ op[p] = "authenticate" /\ pc[p] = "done"
        /\ gh[p].lres = "status" /\ gh[p].lst = 401 /\ gh[p].logins = 1
        /\ result[p].kind = "unauthorized"
        /\ token # NoToken

C14_CurrentUserRetried ==
    \A p \in Procs :
        (op[p] = "currentUser" /\ pc[p] = "done" /\ result[p].t = "api"
           /\ RetryableOutcome(FALSE, result[p].status) /\ gh[p].attempts >= 1)
        => gh[p].attempts = retryConf.MaxRetries + 1

\* C15: NewAPIError keeps the status and maps it to its kind: 401
\* unauthorized, 404 notFound, 400 badRequest, 429 rateLimited, 500..599 and
\* only those serverError, every other non-2xx status unspecified.
C15_KindMapping ==
    (apiErr.t = "api" /\ ~SuccessStatus(apiErr.status)) =>
        apiErr.kind = CASE apiErr.status = 401 -> "unauthorized"
                        [] apiErr.status = 404 -> "notFound"
                        [] apiErr.status = 400 -> "badRequest"
                        [] apiErr.status = 429 -> "rateLimited"
                        [] apiErr.status >= 500 /\ apiErr.status <= 599 -> "serverError"
                        [] OTHER -> "unspecified"

\* C16: no login or CurrentUser exchange answered with a 2xx status yields an
\* API error, and no refresh answered with a 2xx status falls back to a login.
C16_Every2xxSuccess ==
    \A p \in Procs :
        /\ result[p].t = "api" => ~SuccessStatus(result[p].status)
        /\ gh[p].rfail = "status" => ~SuccessStatus(gh[p].rst)

\* C16 as amended: for login, refresh and CurrentUser only status 200 is
\* success. A login or CurrentUser answered with another status, another 2xx
\* included, returns the API error of that status; a refresh answered with
\* another status falls back to a login.
C16_Only200Success ==
    \A p \in Procs :
        /\ gh[p].lres = "ok" => gh[p].lst = 200
        /\ (gh[p].lres = "status" /\ SuccessStatus(gh[p].lst) /\ gh[p].lst # 200)
           => pc[p] = "done" /\ result[p] = APIErr(gh[p].lst)
        /\ (gh[p].rst # 0 /\ gh[p].rst # 200)
           => gh[p].rfail = "status" /\ (gh[p].logins = 1 \/ gh[p].lres = "ctx")
        /\ (op[p] = "currentUser" /\ gh[p].last = "status")
           => /\ result[p] = Success => gh[p].lastStatus = 200
              /\ gh[p].lastStatus # 200 => result[p] = APIErr(gh[p].lastStatus)

C16_Witness ==
    \E p \in Procs :
        /\ op[p] = "ensure" /\ pc[p] = "done"
        /\ gh[p].rfail = "status" /\ gh[p].rst = 204
        /\ gh[p].lres = "status" /\ gh[p].lst = 204
        /\ result[p] = APIErr(204)

\* C17: every error a call returns, other than the cancellation error, is a
\* structured API error; a transport failure is the API error with status 0
\* and kind transport.
C17_AlwaysAPIError ==
    \A p \in Procs :
        (pc[p] = "done" /\ result[p].t # "nil" /\ result[p] # Wrapped("ctx"))
        => /\ result[p].t = "api"
           /\ (gh[p].lres = "transport" \/ gh[p].rfail = "transport"
                 \/ gh[p].last = "transport") => result[p] = TransportErr

\* C17 as amended: a non-200 answer to a login or CurrentUser exchange is
\* returned as the API error of that status; a transport failure or an
\* undecodable body of a login, refresh or CurrentUser exchange is returned as
\* a plain error wrapping its cause, without status and kind.
C17_PlainWrappedErrors ==
    \A p \in Procs :
        pc[p] = "done" =>
          /\ result[p].t = "api" =>
                /\ result[p].status \notin {0, 200}
                /\ \/ gh[p].lres = "status" /\ gh[p].lst = result[p].status
                   \/ gh[p].last = "status" /\ gh[p].lastStatus = result[p].status
          /\ (gh[p].lres = "transport" \/ gh[p].rfail = "transport"
                \/ gh[p].last = "transport") => result[p] = Wrapped("transport")
          /\ (gh[p].lres = "decode" \/ gh[p].rfail = "decode")
                => result[p] = Wrapped("decode")
          /\ (result[p].t # "nil" /\ result[p].t # "api")
                => result[p] \in {Wrapped("transport"), Wrapped("decode")}

C17_Witness ==
    \E p \in Procs :
        /\ op[p] = "currentUser" /\ pc[p] = "done"
        /\ gh[p].attempts = 1 /\ gh[p].last = "transport"
        /\ result[p] = Wrapped("transport")

\* C18: when a call ends because its retry budget is used up, the error it
\* returns is the API error of the last attempt's outcome: its status and
\* the kind of that status, whatever earlier attempts were answered.
C18_LastErrorReturned ==
    \A p \in Procs :
        (op[p] = "doRequest" /\ pc[p] = "done" /\ ~cancelled[p]
           /\ gh[p].attempts = retryConf.MaxRetries + 1
           /\ gh[p].fails = gh[p].attempts)
        => /\ result[p].t = "api"
           /\ result[p].status = gh[p].lastStatus
           /\ result[p].kind = CASE gh[p].last = "transport" -> "transport"
                                 [] gh[p].lastStatus = 429 -> "rateLimited"
                                 [] OTHER -> "serverError"

C18_Witness ==
    \E p \in Procs :
        /\ op[p] = "doRequest" /\ pc[p] = "done" /\ ~cancelled[p]
        /\ retryConf.MaxRetries = 2 /\ gh[p].attempts = 3 /\ gh[p].fails = 3
        /\ gh[p].firstStatus = 429 /\ gh[p].lastStatus = 503
        /\ result[p].status = 503 /\ result[p].kind = "serverError"

\* C19: while a call's context is done the call starts no network exchange:
\* its counts of login, refresh and data requests stay as they are.
C19_NoExchangeAfterCancel ==
    [][\A p \in Procs :
          (cancelled[p] /\ cancelled'[p])
          => /\ gh'[p].logins = gh[p].logins
             /\ gh'[p].refreshes = gh[p].refreshes
             /\ gh'[p].attempts = gh[p].attempts]_vars

C19_Witness ==
    \E p \in Procs :
        /\ op[p] = "doRequest" /\ pc[p] = "done" /\ cancelled[p]
        /\ gh[p].rfail = "ctx" /\ gh[p].refreshes = 1
        /\ gh[p].logins = 0 /\ gh[p].attempts = 0
        /\ result[p] = Wrapped("ctx")

\* C20: a CurrentUser call whose ensureAuthenticated failed (the login
\* failed, or the refresh failed with no fallback) is over with an error and
\* has sent no data request; a call that has sent a data request had no such
\* failure.
C20_EnsureFailureStopsCall ==
    \A p \in Procs :
        op[p] = "currentUser" =>
          /\ (gh[p].lres \in {"transport", "status", "decode"}
                \/ gh[p].rfail \in {"transport", "decode"})
             => /\ pc[p] = "done"
                /\ result[p].t # "nil"
                /\ gh[p].attempts = 0
          /\ gh[p].attempts >= 1
             => /\ gh[p].lres \in {"none", "ok"}
                /\ gh[p].rfail \in {"none", "status", "empty"}

C20_Witness ==
    \E p \in Procs :
        /\ op[p] = "currentUser" /\ pc[p] = "done"
        /\ gh[p].lres = "status" /\ gh[p].lst = 401
        /\ gh[p].attempts = 0
        /\ result[p] = APIErr(401)

\* C21 (as stated): every call that has started ends, and it ends with no
\* error, with a structured API error or with the cancellation error.
C21_ThreeOutcomes ==
    \A p \in Procs : pc[p] = "done" =>
        \/ result[p].t = "nil"
        \/ result[p].t = "api"
        \/ result[p].t = "wrapped" /\ result[p].kind = "ctx"

C21_Terminates ==
    \A p \in Callers : (pc[p] \notin {"idle", "done"}) ~> (pc[p] = "done")

C21_TerminatesInThree == C21_Terminates /\ []C21_ThreeOutcomes

\* C21 (amended): every call that has started ends, and it ends in exactly one
\* of four outcomes: no error (with the decoded value for a data call), a
\* structured API error, the cancellation error, or a plain wrapped error of
\* a transport failure or an undecodable body; only the first delivers a value.
C21_FourOutcomes ==
    \A p \in Procs : pc[p] = "done" =>
        /\ \/ result[p] = (IF op[p] \in {"currentUser", "doRequest"} THEN Success ELSE Nil)
           \/ result[p].t = "api" /\ ~result[p].val
           \/ result[p] = Wrapped("ctx")
           \/ result[p] \in {Wrapped("transport"), Wrapped("decode")}
        /\ result[p].t # "nil" => ~result[p].val

C21_TerminatesInFour == C21_Terminates /\ []C21_FourOutcomes

C21_Witness ==
    \E p \in Callers :
        /\ op[p] = "currentUser" /\ pc[p] = "done"
        /\ gh[p].attempts = 1 /\ gh[p].last = "transport"
        /\ result[p] = Wrapped("transport")

\* C22: the retry policy of every constructed client has BaseDelay > 0 and
\* MaxDelay >= BaseDelay, whatever options NewClient was given.
C22_PolicyInvariant ==
    /\ retryConf.BaseDelay > 0
    /\ retryConf.MaxDelay >= retryConf.BaseDelay

C24_OwnBudget ==
    \A p \in Procs : op[p] = "doRequest" =>
        /\ gh[p].attempts <= retryConf.MaxRetries + 1
        /\ gh[p].attempts >= 1 => lv[p].attempt + 1 = gh[p].attempts + (IF pc[p] = "gt_read" THEN 1 ELSE 0)
        /\ (pc[p] = "done" /\ gh[p].fails = gh[p].attempts)
           => gh[p].attempts = retryConf.MaxRetries + 1
        /\ (pc[p] = "done" /\ result[p].t # "nil")
           => /\ gh[p].last \in {"transport", "status"}
              /\ gh[p].last = "status" => ~SuccessStatus(gh[p].lastStatus)
              /\ result[p] = ErrorOf([terr |-> gh[p].last = "transport",
                                      status |-> gh[p].lastStatus])

C24_StepsApart ==
    [][\A p, q \in Procs :
          (p # q /\ (pc'[q] # pc[q] \/ lv'[q] # lv[q]))
          => /\ pc'[p] = pc[p] /\ lv'[p] = lv[p]
             /\ gh'[p] = gh[p] /\ result'[p] = result[p]]_vars

C24_PerCallRetryState == []C24_OwnBudget /\ C24_StepsApart

C24_Witness ==
    /\ retryConf.MaxRetries = 2
    /\ pc["g1"] = "done" /\ gh["g1"].attempts = 3 /\ gh["g1"].fails = 3
    /\ result["g1"].t = "api"
    /\ pc["g2"] = "done" /\ gh["g2"].attempts = 3 /\ gh["g2"].fails = 2
    /\ result["g2"] = Success

\* C25 (as stated): a call that found a non-empty token whose expiry had
\* passed logs in with the credentials and sends no refresh.
C25_ExpiredTokenLogsIn ==
    \A p \in Procs :
        (gh[p].eaGap = "past" /\ pc[p] = "done" /\ ~cancelled[p])
        => gh[p].logins = 1 /\ gh[p].refreshes = 0

\* C25 (amended): a call that found a non-empty token whose expiry had passed
\* goes to refreshToken: unless the token has become empty meanwhile or the
\* context is done, it sends one refresh exchange, and it logs in only as the
\* fallback of a refresh answered with a non-200 status (or of the empty token).
C25_ExpiredTokenRefreshes ==
    \A p \in Procs : gh[p].eaGap = "past" =>
        /\ gh[p].refreshes <= 1
        /\ pc[p] # "rt_read"
           => (gh[p].refreshes = 1 \/ gh[p].rfail \in {"empty", "ctx"})
        /\ (gh[p].logins >= 1 \/ gh[p].lres # "none")
           => gh[p].rfail \in {"status", "empty"}

C25_Witness ==
    \E p \in Procs :
        /\ gh[p].eaGap = "past" /\ pc[p] = "done" /\ ~cancelled[p]
        /\ gh[p].refreshes = 1 /\ gh[p].logins = 0 /\ gh[p].rfail = "none"
        /\ result[p].t = "nil" /\ tokenExp = ExpiryAt(now)

\* C26: within one call, a further attempt is sent only when the attempt
\* before it ended in a retryable failure, the timer set to the delay computed
\* for it has run down to zero and the context is not done; the timer only
\* counts down; a sleep left while the context is done ends the call with the
\* cancellation error and no further attempt.
C26_AttemptAfterBackoff ==
    [][\A p \in Procs : op[p] = "doRequest" =>
          /\ (gh'[p].attempts = gh[p].attempts + 1 /\ gh[p].attempts >= 1)
             => /\ pc[p] = "gt_read" /\ ~cancelled[p]
                /\ gh[p].last \in {"transport", "status"}
                /\ RetryableOutcome(gh[p].last = "transport", gh[p].lastStatus)
                /\ lv[p].sleep = 0
          /\ (pc[p] = "rq_sleep" /\ pc'[p] # "rq_sleep")
             => IF cancelled[p]
                  THEN /\ pc'[p] = "done" /\ result'[p] = Wrapped("ctx")
                       /\ gh'[p] = gh[p]
                  ELSE lv[p].sleep = 0 /\ pc'[p] = "gt_read"
          /\ (pc[p] = "rq_sleep" /\ lv'[p].sleep # lv[p].sleep)
             => lv'[p].sleep = lv[p].sleep - 1
          /\ ~(pc[p] = "rq_wait" /\ pc'[p] = "gt_read")]_vars

C26_Witness ==
    \E p \in Procs :
        /\ op[p] = "doRequest" /\ pc[p] = "rq_wait" /\ ~retryConf.Jitter
        /\ gh[p].attempts = 2 /\ gh[p].fails = 1 /\ lv[p].attempt = 1
        /\ lv[p].sleep = 0

C27_EnsuredOnce ==
    \A p \in Procs : op[p] = "doRequest" =>
        /\ gh[p].ensures <= 1
        /\ gh[p].attempts >= 1 => gh[p].ensures = 1

C27_CurrentTokenSent ==
    [][\A p \in Procs :
          (op[p] = "doRequest" /\ gh'[p].attempts = gh[p].attempts + 1)
          => /\ gh'[p].sentEmpty = (token = NoToken)
             /\ gh'[p].ensures = gh[p].ensures
             /\ gh'[p].refreshes = gh[p].refreshes]_vars

C28_CancelledNotRetried ==
    [][\A p \in Procs :
          (pc[p] \in InFlight /\ cancelled[p] /\ pc'[p] # pc[p])
          => /\ pc'[p] = "done"
             /\ result'[p] = Wrapped("ctx")
             /\ gh'[p].fails = gh[p].fails
             /\ gh'[p].last # "transport"
             /\ gh'[p].logins = gh[p].logins
             /\ lv'[p].attempt = lv[p].attempt
             /\ lv'[p].sleep = lv[p].sleep]_vars

C28_Witness ==
    \E p \in Procs :
        /\ op[p] = "doRequest" /\ pc[p] = "done" /\ cancelled[p]
        /\ gh[p].last = "cancelled" /\ gh[p].attempts = 2 /\ gh[p].fails = 1
        /\ retryConf.MaxRetries = 2
        /\ result[p] = Wrapped("ctx")

\* C29: a data call whose attempt failed in transport, with the context
\* live, re-issues it after the backoff while the budget lasts: it ends on a
\* transport failure only after MaxRetries + 1 attempts, as on a 429 or 5xx.
C29_TransportRetried ==
    \A p \in Procs :
        (op[p] \in {"currentUser", "doRequest"} /\ pc[p] = "done"
           /\ ~cancelled[p] /\ gh[p].last = "transport")
        => gh[p].attempts = retryConf.MaxRetries + 1

\* C30: the timer of the k-th retry of a call (k the number of attempts the
\* call has sent, k >= 1) is set to a delay the calculator gives for attempt
\* number k, never to the answer it gives for an attempt number <= 0; and for
\* every attempt number <= 0 the calculator answers with the precondition
\* violation and no delay.
C30_RetryDelay ==
    [][\A p \in Procs :
          (op[p] = "doRequest" /\ pc[p] = "rq_wait" /\ pc'[p] = "rq_sleep")
          => /\ gh[p].attempts >= 1
             /\ lv'[p].sleep # PreconditionViolation
             /\ lv'[p].sleep <= Min(retryConf.BaseDelay * 2^(gh[p].attempts),
                                    retryConf.MaxDelay)
             /\ lv'[p].sleep >= (IF retryConf.Jitter THEN 0
                                 ELSE Min(retryConf.BaseDelay * 2^(gh[p].attempts),
                                          retryConf.MaxDelay))]_vars

C30_Precondition ==
    \A n \in (0 - MaxAttemptNo) .. 0 :
        calculateRetryDelay(n, retryConf) = {PreconditionViolation}

C31_SnapshotSent ==
    [][\A p \in Procs :
          /\ (pc[p] = "rt_read" /\ pc'[p] = "rt_wait")
             => /\ token # NoToken /\ lv'[p].tok = token
                /\ gh'[p].refreshes = gh[p].refreshes + 1
          /\ (pc[p] = "rt_read" /\ token = NoToken /\ pc'[p] # pc[p])
             => /\ gh'[p].refreshes = gh[p].refreshes
                /\ (pc'[p] = "au_wait" /\ gh'[p].logins = gh[p].logins + 1)
                   \/ (cancelled[p] /\ pc'[p] = "done")
          /\ (pc[p] = "rt_lock" /\ pc'[p] = "rt_wexp")
             => token' = lv[p].resp /\ stamp'.tok = lv[p].xid]_vars

C31_StoredIsAnswered ==
    /\ token \in {NoToken, stamp.tok}
    /\ \A p \in Procs :
          /\ pc[p] = "rt_wait" => lv[p].tok \in 1 .. issued
          /\ pc[p] \in {"rt_lock", "rt_wexp"} => gh[p].refreshes = 1
          /\ pc[p] = "rt_lock" => lv[p].resp \in {NoToken, lv[p].xid}

C31_RefreshExchange == C31_SnapshotSent /\ []C31_StoredIsAnswered

C31_Witness ==
    \E p \in Procs :
        /\ pc[p] = "done" /\ result[p].t = "nil"
        /\ gh[p].refreshes = 1 /\ gh[p].logins = 0
        /\ token = 2 /\ stamp = [tok |-> 2, exp |-> 2]

\* C32: the slice Apply returned holds exactly the input tasks that pass
\* every predicate of the filter, in the input's order and as often as the
\* input holds them; with no predicate it equals the input; it is backed by
\* an array of its own, and Apply leaves the input slice as it was.
C32_Selected ==
    flt.arr # "none" =>
        /\ flt.arr = "fresh"
        /\ LET All(t) == \A i \in 1 .. Len(flt.filters) : FilterFn(flt.filters[i], t)
           IN  flt.out = SelectSeq(flt.tasks, All)
        /\ Len(flt.filters) = 0 => flt.out = flt.tasks

C32_InputKept == [][flt.arr = "none" /\ flt'.arr # "none" => flt'.tasks = flt.tasks]_vars

C32_ApplySelects == []C32_Selected /\ C32_InputKept

C32_Witness ==
    /\ flt.arr = "fresh" /\ Len(flt.filters) = 2
    /\ Len(flt.tasks) = 3 /\ flt.tasks[1] = flt.tasks[3] /\ flt.tasks[1].ID = 1
    /\ flt.tasks[2].ID = 2
    /\ Len(flt.out) = 2 /\ flt.out[1].ID = 1 /\ flt.out[2].ID = 1

\* ---------------------------------------------------------------------
\* C33: WithTag(tag) matches a task if and only if the task carries that
\* tag compared case-insensitively, whether the tag is recorded in the
\* task's parsed Tags map or in its comma-separated TagsAsText.
\* The map is consulted with the tag as written (filter.go:138), so a key
\* that differs from the argument only in case is not found.
C33_CarriesInMap(t, tag) ==
    /\ ~t.Tags.nil
    /\ \E k \in DOMAIN t.Tags.m : t.Tags.m[k] /\ ToLower(k) = ToLower(tag)

C33_CarriesInText(t, tag) ==
    \E i \in 1 .. Len(Split(t.TagsAsText)) :
        ToLower(TrimSpace(Split(t.TagsAsText)[i])) = ToLower(tag)

C33_MatchesIffCarries ==
    flt.task.ID # 0 =>
        (flt.has <=> \/ C33_CarriesInMap(flt.task, flt.tag)
                     \/ C33_CarriesInText(flt.task, flt.tag))

\* ------------------------------------------------- AuthenticateWith2FA
\* The second-factor codes a caller supplies: none, and the one of
\* TestAuthenticate_2FA.
TwoFACodes == {"", "123456"}

TotpFieldAlways(twoFAToken) == twoFAToken

\* if twoFAToken != "" { data.Set("totp", twoFAToken) }
TotpField(twoFAToken) == IF twoFAToken # "" THEN twoFAToken ELSE "absent"

\* AuthenticateWith2FA(ctx, twoFAToken); Authenticate(ctx) is the call with
\* twoFAToken = "".
AuthenticateWith2FA(p, twoFAToken) ==
    /\ pc[p] = "idle"
    /\ op' = [op EXCEPT ![p] = "authenticate"]
    /\ CallAuthenticate(p, [gh[p] EXCEPT !.code = twoFAToken,
                                         !.totp = TotpField(twoFAToken),
                                         !.had = /\ token # NoToken
                                                 /\ ~NeedsRefresh(now, tokenExp)
                                                 /\ mu.writer = NoProc])
    /\ UNCHANGED <<shared, now, retryConf, lv, cancelled, probe, apiErr, flt>>

\* ------------------------------------------- the credential state alone
\* Two goroutines that call ensureAuthenticated and Authenticate on one
\* Client, with contexts that can be cancelled, at the instants of LiveTimes.
NextCred ==
    \/ \E p \in Procs : Start(p, "ensure")
    \/ \E p \in Procs : \E c \in TwoFACodes : AuthenticateWith2FA(p, c)
    \/ \E p \in Procs : TokenManagerStep(p)
    \/ \E p \in Procs : Cancel(p)
    \/ \E p \in Procs : Return(p)
    \/ \E t \in LiveTimes : Tick(t)

SpecCred == Init /\ [][NextCred]_vars

\* ---------------------------------------------------------------------
\* C34: a login or refresh exchange that fails (no response, a status other
\* than 200, a body that does not decode, a cancelled context) writes neither
\* token nor tokenExp; the credential state is written only by an exchange
\* that was answered, and that exchange writes token and tokenExp in one
\* critical section of the write lock: token when it takes the lock, tokenExp
\* when it releases it, so that with the lock free both are of one exchange.
C34_InExchange(p) == pc[p] \in {"au_wait", "rt_wait"}

C34_FailedStep(p) ==
    /\ C34_InExchange(p)
    /\ pc'[p] \notin {pc[p], "au_lock", "rt_lock"}

C34_FailureWritesNothing ==
    [][\A p \in Procs : C34_FailedStep(p) =>
            token' = token /\ tokenExp' = tokenExp /\ stamp' = stamp]_vars

C34_WritesInSection ==
    [][/\ (token' # token \/ stamp'.tok # stamp.tok) =>
             \E p \in Procs : /\ pc[p] \in {"au_lock", "rt_lock"}
                              /\ mu.writer = NoProc /\ mu'.writer = p
                              /\ token' = lv[p].resp
                              /\ tokenExp' = tokenExp
       /\ (tokenExp' # tokenExp \/ stamp'.exp # stamp.exp) =>
             \E p \in Procs : /\ pc[p] \in {"au_wexp", "rt_wexp"}
                              /\ mu.writer = p /\ mu'.writer = NoProc
                              /\ stamp'.exp = stamp.tok
                              /\ token' = token]_vars

C34_OneSection ==
    /\ \A p \in Procs : pc[p] \in {"au_wexp", "rt_wexp"} => mu.writer = p
    /\ mu.writer = NoProc => stamp.tok = stamp.exp

C34_FailureLeavesCredentials ==
    /\ C34_FailureWritesNothing
    /\ C34_WritesInSection
    /\ []C34_OneSection

\* A refresh was answered with a body that does not decode while the token
\* and the expiry written by the second exchange are stored.
C34_Witness ==
    \E p \in Procs :
        /\ gh[p].rfail = "decode"
        /\ pc[p] = "done"
        /\ token = 2 /\ stamp = [tok |-> 2, exp |-> 2]
        /\ mu.writer = NoProc

\* ---------------------------------------------------------------------
\* C35: once a login or refresh has succeeded and set tokenExp 23 hours
\* ahead, an ensureAuthenticated that finds the credential state of that
\* exchange more than one hour before tokenExp sends no login and no refresh
\* request and leaves token and tokenExp as they are.
C35_SnapshotOfSuccess(p) ==
    /\ pc[p] = "ea_test"
    /\ lv[p].tokBy >= 1
    /\ lv[p].expBy = lv[p].tokBy
    /\ lv[p].exp - now > RenewalHorizon

C35_EnsureIdempotent ==
    [][\A p \in Procs :
          (C35_SnapshotOfSuccess(p) /\ pc'[p] # pc[p])
          => /\ pc'[p] \notin {"au_wait", "rt_read", "rt_wait"}
             /\ gh'[p].logins = gh[p].logins
             /\ gh'[p].refreshes = gh[p].refreshes
             /\ result'[p].t = "nil"
             /\ token' = token /\ tokenExp' = tokenExp]_vars

\* ---------------------------------------------------------------------
\* C36: with a clock that does not go back, tokenExp never decreases: every
\* write stores a value at least as large as the stored one, in every
\* interleaving of the goroutines' exchanges.
C36_ExpiryMonotonic == [][tokenExp' >= tokenExp]_vars

\* Two exchanges were in flight together; the one answered second wrote at
\* hour 0, the one answered first wrote after it, at hour MaxTime.
C36_Witness ==
    /\ issued = 2
    /\ stamp = [tok |-> 1, exp |-> 1]
    /\ \A p \in Procs : lv[p].xid = 0 /\ pc[p] \notin {"au_wait", "rt_wait"}
    /\ tokenExp = MaxTime + TokenLifetime
    /\ mu.writer = NoProc

\* ---------------------------------------------------------------------
\* C37: an exchange never replaces the stored token by one the server issued
\* before it: the tokens stored one after the other are in the order in
\* which the server issued them.
C37_NoStaleOverwrite == [][stamp'.tok >= stamp.tok]_vars

\* ---------------------------------------------------------------------
\* C38: Authenticate and AuthenticateWith2FA send exactly one login request
\* and no refresh request, whatever token and tokenExp are stored when they
\* are called; when the login is answered with success the call stores the
\* decoded token and tokenExp = now + 23 hours and returns nil; the login
\* form carries a totp field only if the supplied code is not empty, and then
\* the field is that code.
C38_Explicit(p) == op[p] = "authenticate"

C38_OneLogin ==
    \A p \in Procs :
        C38_Explicit(p) =>
            /\ gh[p].logins = 1
            /\ gh[p].refreshes = 0
            /\ gh[p].ensures = 0
            /\ (gh[p].totp # "absent" => gh[p].code # "" /\ gh[p].totp = gh[p].code)
            /\ (gh[p].code # "" => gh[p].totp = gh[p].code)
            /\ (pc[p] = "done" /\ result[p].t = "nil" => gh[p].lres = "ok")

C38_SuccessOverwrites ==
    [][\A p \in Procs :
          /\ (C38_Explicit(p) /\ pc[p] = "au_lock" /\ pc'[p] # pc[p])
                => token' = lv[p].resp /\ stamp'.tok = lv[p].xid
          /\ (C38_Explicit(p) /\ pc[p] = "au_wexp" /\ pc'[p] # pc[p])
                => /\ tokenExp' = now + TokenLifetime
                   /\ stamp'.exp = lv[p].xid
                   /\ stamp'.tok = lv[p].xid
                   /\ result'[p].t = "nil"
                   /\ pc'[p] = "done"]_vars

C38_ExplicitAuthentication == []C38_OneLogin /\ C38_SuccessOverwrites

\* AuthenticateWith2FA with a code, called while a token was stored that
\* needed no renewal, has sent its one login with the code and has replaced
\* that token and its tokenExp.
C38_Witness ==
    \E p \in Procs :
        /\ C38_Explicit(p) /\ pc[p] = "done" /\ result[p].t = "nil"
        /\ gh[p].had
        /\ gh[p].code = "123456" /\ gh[p].totp = "123456"
        /\ gh[p].logins = 1
        /\ token = 2 /\ stamp = [tok |-> 2, exp |-> 2]
        /\ now = 0 /\ tokenExp = TokenLifetime

====
